---- MODULE Spec2Model ----
(***************************************************************************)
(* One turn of the emotional dialogue game (emotional_dialogue_game.py):   *)
(* handle_ai_turn on the event loop's main task, the receive_audio task,   *)
(* the play_audio_async task, the _play_audio_sync thread and the TTS      *)
(* server at the other end of the websocket.                               *)
(*                                                                         *)
(* The three coroutines run on one asyncio event loop: a task runs from    *)
(* one suspension point (an await that really waits) to the next without   *)
(* interleaving with the other tasks.  The playback thread and the server  *)
(* run concurrently with everything.                                       *)
(***************************************************************************)
EXTENDS Integers, Sequences, FiniteSets, TLC

\* ---------------------------------------------------------------- bounds
\* Longest fragment sequence the text generator yields.
MaxFrags == 2
\* Most inbound messages the server sends in one turn.
MaxMsgs == 3

\* ------------------------------------------------------- text and codecs
\* Characters are one-character strings; a text is a sequence of characters.
Whitespace == {" ", "\n"}

\* str.strip(): drop leading and trailing whitespace.
RECURSIVE LStrip(_)
LStrip(s) ==
    IF s # <<>> /\ Head(s) \in Whitespace THEN LStrip(Tail(s)) ELSE s

RECURSIVE RStrip(_)
RStrip(s) ==
    IF s # <<>> /\ s[Len(s)] \in Whitespace
    THEN RStrip(SubSeq(s, 1, Len(s) - 1)) ELSE s

\* A variant of Strip that drops nothing.
NoStrip(s) == s

Strip(s) == RStrip(LStrip(s))

\* str.encode('utf-8') on the characters the model uses (all ASCII).
Ord(c) ==
    CASE c = " " -> 32
      [] c = "\n" -> 10
      [] c = "a" -> 97
      [] c = "b" -> 98

Utf8Encode(s) == [i \in 1..Len(s) |-> Ord(s[i])]

\* base64: a digit is its index 0..63 in the base64 alphabet, Pad is '='.
Pad == 64

RECURSIVE B64Encode(_)
B64Encode(bs) ==
    IF Len(bs) = 0 THEN <<>>
    ELSE IF Len(bs) = 1 THEN
        <<bs[1] \div 4, (bs[1] % 4) * 16, Pad, Pad>>
    ELSE IF Len(bs) = 2 THEN
        <<bs[1] \div 4, (bs[1] % 4) * 16 + bs[2] \div 16, (bs[2] % 16) * 4, Pad>>
    ELSE
        <<bs[1] \div 4, (bs[1] % 4) * 16 + bs[2] \div 16,
          (bs[2] % 16) * 4 + bs[3] \div 64, bs[3] % 64>>
        \o B64Encode(SubSeq(bs, 4, Len(bs)))

\* base64.b64decode raises binascii.Error on incorrect padding.
B64Valid(s) == Len(s) % 4 = 0

RECURSIVE B64Decode(_)
B64Decode(s) ==
    IF Len(s) = 0 THEN <<>>
    ELSE IF s[3] = Pad THEN <<s[1] * 4 + s[2] \div 16>>
    ELSE IF s[4] = Pad THEN
        <<s[1] * 4 + s[2] \div 16, (s[2] % 16) * 16 + s[3] \div 4>>
    ELSE
        <<s[1] * 4 + s[2] \div 16, (s[2] % 16) * 16 + s[3] \div 4,
          (s[3] % 4) * 64 + s[4]>>
        \o B64Decode(SubSeq(s, 5, Len(s)))

\* ------------------------------------------------------- optional values
\* Python's None, and a present value.
None == [some |-> FALSE]
Some(v) == [some |-> TRUE, v |-> v]

\* next(iterator, None): the next item and the rest of the iterator.
NextItem(it) == IF it = <<>> THEN None ELSE Some(Head(it))
Advance(it) == IF it = <<>> THEN <<>> ELSE Tail(it)

\* ------------------------------------------------------------------ state
VARIABLES
    pc,             \* where handle_ai_turn (the main task) is
    session,        \* whether get_tts_websocket_url returned a session
    confirms,       \* the success flags confirm_session was called with
    messages,       \* the assistant messages appended to the conversation
    raised,         \* the errors raised in this turn
    conn,           \* the websocket connection
    ws,             \* whether self.ws is set
    inbox,          \* number of inbound messages sent and not yet read
    nmsgs,          \* number of messages the server has sent
    rx,             \* the receive_audio task
    received,       \* the messages recv() has returned, in order
    ptask,          \* the play_audio_async task
    thread,         \* the _play_audio_sync thread (self.play_thread)
    took_eos,       \* whether the playback thread took the end-of-stream marker
    is_playing,     \* self.is_playing
    chunk,          \* the playback thread's local variable chunk
    audio_queue,    \* self.audio_queue
    audio_frames,   \* self.audio_frames
    pushed,         \* every item put on audio_queue, in order
    played,         \* the chunks written to self.stream, in order
    stream,         \* the PyAudio output stream (the sink)
    saved,          \* what _save_audio_to_file wrote
    closes,         \* how many times close() was called on the client
    frags,          \* the fragments the text generator yields in this turn
    iterator,       \* the fragments not yet taken from the generator
    current_chunk,  \* send_text_stream's locals
    next_chunk,
    chunk_to_send,
    full_text,
    seq,
    is_first,
    frame,          \* the frame being written by ws.send
    sent            \* the frames written to the connection, in order

turnVars == <<pc, session, confirms, messages, raised>>
netVars == <<conn, ws, inbox, nmsgs, rx, received>>
playVars == <<ptask, thread, took_eos, is_playing, chunk, played>>
audioVars == <<audio_queue, audio_frames, pushed>>
sinkVars == <<stream, saved, closes>>
sendVars == <<frags, iterator, current_chunk, next_chunk, chunk_to_send,
              full_text, seq, is_first, frame, sent>>
vars == <<turnVars, netVars, playVars, audioVars, sinkVars, sendVars>>

\* ----------------------------------------------------------------- inputs
\* The fragments a text generator may yield: blank, or text in whitespace.
Fragments == {<<" ">>, <<" ", "b", "\n">>}

RECURSIVE SeqsUpTo(_, _)
SeqsUpTo(S, n) ==
    IF n = 0 THEN {<<>>}
    ELSE LET shorter == SeqsUpTo(S, n - 1)
         IN shorter \cup {Append(q, x) : q \in shorter, x \in S}

\* The fragment sequences of a turn.
FragSeqs == SeqsUpTo(Fragments, MaxFrags)

\* The inputs of send_text_stream taken alone: also empty fragments, plain
\* text and text with inner whitespace, in longer sequences.
FramerFragments == Fragments \cup {<<>>, <<"a">>, <<"a", " ", "b">>}
FramerSeqs == SeqsUpTo(FramerFragments, MaxFrags + 1)

\* Inbound messages.  A JSON message has header.code, header.status and
\* payload.audio.audio, each possibly absent.
NonJson == [json |-> FALSE]
Msg(code, status, audio) ==
    [json |-> TRUE, code |-> code, status |-> status, audio |-> audio]

\* The audio payload of the k-th message read: k bytes, in base64.
AudioBytes(k) == [i \in 1..k |-> 10 * k + i]
\* A base64 text with incorrect padding.
BadB64 == <<16, 16>>

ServerMsgs(k) ==
    { NonJson,
      Msg(Some(5), None, Some(B64Encode(AudioBytes(k)))),
      Msg(Some(0), Some(1), Some(B64Encode(AudioBytes(k)))),
      Msg(Some(0), Some(2), Some(B64Encode(AudioBytes(k)))),
      Msg(Some(0), Some(2), None),
      Msg(Some(0), Some(1), Some(BadB64)) }

\* Items of the audio queue: a chunk of raw bytes, or None (end of stream).
ChunkItem(b) == [eos |-> FALSE, data |-> b]
EndOfStream == [eos |-> TRUE]

\* ------------------------------------------------------------------- Init
Init ==
    /\ pc = "idle"
    /\ session = FALSE
    /\ confirms = <<>>
    /\ messages = <<>>
    /\ raised = {}
    /\ conn = "none"
    /\ ws = FALSE
    /\ inbox = 0
    /\ nmsgs = 0
    /\ rx = "none"
    /\ received = <<>>
    /\ ptask = "none"
    /\ thread = "none"
    /\ took_eos = FALSE
    /\ is_playing = FALSE
    /\ chunk = None
    /\ audio_queue = <<>>
    /\ audio_frames = <<>>
    /\ pushed = <<>>
    /\ played = <<>>
    /\ stream = "none"
    /\ saved = None
    /\ closes = 0
    /\ frags = <<>>
    /\ iterator = <<>>
    /\ current_chunk = None
    /\ next_chunk = None
    /\ chunk_to_send = <<>>
    /\ full_text = <<>>
    /\ seq = 0
    /\ is_first = TRUE
    /\ frame = None
    /\ sent = <<>>

\* The main task is waiting in an await: the loop's other tasks may run.
Suspended == pc \in {"connect", "send", "sleep", "waitplay", "closing"}

\* --------------------------------------------------------- handle_ai_turn
\* get_tts_websocket_url returns the session data, or None and the turn ends.
GetSession ==
    /\ pc = "idle"
    /\ \/ session' = TRUE /\ pc' = "construct"
       \/ session' = FALSE /\ pc' = "done"
    /\ UNCHANGED <<confirms, messages, raised>>
    /\ UNCHANGED <<netVars, playVars, audioVars, sinkVars, sendVars>>

\* TTSWebSocketClient(...) opens the output stream; then connect() is awaited.
Construct ==
    /\ pc = "construct"
    /\ stream' = "open"
    /\ pc' = "connect"
    /\ UNCHANGED <<session, confirms, messages, raised, saved, closes>>
    /\ UNCHANGED <<netVars, playVars, audioVars, sendVars>>

\* The constructor raises, before the try block: in pyaudio's open (no stream
\* yet) or in _setup_audio_directory (the stream is open).
ConstructFails ==
    /\ pc = "construct"
    /\ \E opened \in BOOLEAN : stream' = IF opened THEN "open" ELSE "none"
    /\ raised' = raised \cup {"construct"}
    /\ pc' = "crashed"
    /\ UNCHANGED <<session, confirms, messages, saved, closes>>
    /\ UNCHANGED <<netVars, playVars, audioVars, sendVars>>

\* connect(): the connection opens and the receive_audio task is created.
ConnectOk ==
    /\ pc = "connect"
    /\ conn' = "open"
    /\ ws' = TRUE
    /\ rx' = "ready"
    /\ pc' = "connected"
    /\ UNCHANGED <<session, confirms, messages, raised, inbox, nmsgs, received>>
    /\ UNCHANGED <<playVars, audioVars, sinkVars, sendVars>>

\* websockets.connect raises.
ConnectFails ==
    /\ pc = "connect"
    /\ raised' = raised \cup {"connect"}
    /\ pc' = "except"
    /\ UNCHANGED <<session, confirms, messages>>
    /\ UNCHANGED <<netVars, playVars, audioVars, sinkVars, sendVars>>

\* The play_audio_async task is created and the text generator obtained.
StartStream ==
    /\ pc = "connected"
    /\ ptask' = "scheduled"
    /\ \E fs \in FragSeqs : frags' = fs /\ iterator' = fs
    /\ pc' = "send_text_stream"
    /\ UNCHANGED <<session, confirms, messages, raised>>
    /\ UNCHANGED <<thread, took_eos, is_playing, chunk, played>>
    /\ UNCHANGED <<current_chunk, next_chunk, chunk_to_send, full_text, seq,
                   is_first, frame, sent>>
    /\ UNCHANGED <<netVars, audioVars, sinkVars>>

\* ------------------------------------------------------- send_text_stream
\* The status of a frame, from is_first and the one-fragment lookahead.
FrameStatus(first, nxt) ==
    IF first /\ ~nxt.some THEN 2
    ELSE IF first THEN 0
    ELSE IF ~nxt.some THEN 2
    ELSE 1

\* A variant that attaches the parameter block to every frame.
MakeFrameParamAlways(status, n, text, first) ==
    [status |-> status, seq |-> n,
     text |-> B64Encode(Utf8Encode(text)), parameter |-> TRUE]

\* The frame: header.status and payload.text.{status, seq, text}, and the
\* parameter block on the first frame.
MakeFrame(status, n, text, first) ==
    [status |-> status, seq |-> n,
     text |-> B64Encode(Utf8Encode(text)), parameter |-> first]

\* The locals are initialised and the first fragment is taken; an empty
\* generator returns "" at once.
SendTextStreamBegin ==
    /\ pc = "send_text_stream"
    /\ full_text' = <<>>
    /\ seq' = 0
    /\ is_first' = TRUE
    /\ current_chunk' = NextItem(iterator)
    /\ iterator' = Advance(iterator)
    /\ pc' = IF iterator = <<>> THEN "sent" ELSE "loop"
    /\ UNCHANGED <<session, confirms, messages, raised>>
    /\ UNCHANGED <<frags, next_chunk, chunk_to_send, frame, sent>>
    /\ UNCHANGED <<netVars, playVars, audioVars, sinkVars>>

\* while current_chunk is not None: the loop ends and full_text is returned.
LoopExit ==
    /\ pc = "loop"
    /\ ~current_chunk.some
    /\ pc' = "sent"
    /\ UNCHANGED <<session, confirms, messages, raised>>
    /\ UNCHANGED <<netVars, playVars, audioVars, sinkVars, sendVars>>

\* A fragment that is blank after strip() is skipped.
SkipBlank ==
    /\ pc = "loop"
    /\ current_chunk.some
    /\ Strip(current_chunk.v) = <<>>
    /\ current_chunk' = NextItem(iterator)
    /\ iterator' = Advance(iterator)
    /\ UNCHANGED <<turnVars, netVars, playVars, audioVars, sinkVars>>
    /\ UNCHANGED <<frags, next_chunk, chunk_to_send, full_text, seq, is_first,
                   frame, sent>>

\* A non-blank fragment: look ahead, build the frame, start ws.send.
BuildFrame ==
    /\ pc = "loop"
    /\ current_chunk.some
    /\ Strip(current_chunk.v) # <<>>
    /\ chunk_to_send' = Strip(current_chunk.v)
    /\ next_chunk' = NextItem(iterator)
    /\ iterator' = Advance(iterator)
    /\ frame' = Some(MakeFrame(FrameStatus(is_first, NextItem(iterator)), seq,
                               Strip(current_chunk.v), is_first))
    /\ is_first' = FALSE
    /\ pc' = "send"
    /\ UNCHANGED <<session, confirms, messages, raised>>
    /\ UNCHANGED <<frags, current_chunk, full_text, seq, sent>>
    /\ UNCHANGED <<netVars, playVars, audioVars, sinkVars>>

\* A variant of SendOk that leaves seq as it is.
SendOkSameSeq ==
    /\ pc = "send"
    /\ conn = "open"
    /\ sent' = Append(sent, frame.v)
    /\ full_text' = full_text \o chunk_to_send
    /\ current_chunk' = next_chunk
    /\ pc' = "sleep"
    /\ UNCHANGED <<session, confirms, messages, raised, seq>>
    /\ UNCHANGED <<frags, iterator, next_chunk, chunk_to_send, is_first, frame>>
    /\ UNCHANGED <<netVars, playVars, audioVars, sinkVars>>

\* ws.send returns: the frame is written; then asyncio.sleep(0.05).
SendOk ==
    /\ pc = "send"
    /\ conn = "open"
    /\ sent' = Append(sent, frame.v)
    /\ full_text' = full_text \o chunk_to_send
    /\ seq' = seq + 1
    /\ current_chunk' = next_chunk
    /\ pc' = "sleep"
    /\ UNCHANGED <<session, confirms, messages, raised>>
    /\ UNCHANGED <<frags, iterator, next_chunk, chunk_to_send, is_first, frame>>
    /\ UNCHANGED <<netVars, playVars, audioVars, sinkVars>>

\* ws.send raises (ConnectionClosed or another Exception): caught inside
\* send_text_stream, which returns full_text.
SendFails ==
    /\ pc = "send"
    /\ raised' = raised \cup {"send"}
    /\ pc' = "sent"
    /\ UNCHANGED <<session, confirms, messages>>
    /\ UNCHANGED <<netVars, playVars, audioVars, sinkVars, sendVars>>

\* asyncio.sleep(0.05) is over: back to the loop's test.
Wake ==
    /\ pc = "sleep"
    /\ pc' = "loop"
    /\ UNCHANGED <<session, confirms, messages, raised>>
    /\ UNCHANGED <<netVars, playVars, audioVars, sinkVars, sendVars>>

\* ------------------------------------------- handle_ai_turn, after the send
\* is_alive() of self.play_thread.
ThreadAlive == thread \notin {"none", "dead"}

\* A variant of AfterSend that appends the message whatever the text is.
AfterSendAlwaysAppends ==
    /\ pc = "sent"
    /\ messages' = Append(messages, full_text)
    /\ pc' = IF ThreadAlive /\ is_playing THEN "waitplay" ELSE "confirm"
    /\ UNCHANGED <<session, confirms, raised>>
    /\ UNCHANGED <<netVars, playVars, audioVars, sinkVars, sendVars>>

\* send_text_stream has returned: the assistant message is appended when the
\* text is not empty, and wait_for_playback_to_finish tests the thread and
\* is_playing once; it sleeps only when both hold.
AfterSend ==
    /\ pc = "sent"
    /\ messages' = IF full_text # <<>> THEN Append(messages, full_text)
                   ELSE messages
    /\ pc' = IF ThreadAlive /\ is_playing THEN "waitplay" ELSE "confirm"
    /\ UNCHANGED <<session, confirms, raised>>
    /\ UNCHANGED <<netVars, playVars, audioVars, sinkVars, sendVars>>

\* while self.is_playing: await asyncio.sleep(0.1) -- the loop ends when the
\* flag is found cleared.
PollPlaying ==
    /\ pc = "waitplay"
    /\ ~is_playing
    /\ pc' = "confirm"
    /\ UNCHANGED <<session, confirms, messages, raised>>
    /\ UNCHANGED <<netVars, playVars, audioVars, sinkVars, sendVars>>

\* confirm_session(session_id, success=True) at the end of the try block.
ConfirmSuccess ==
    /\ pc = "confirm"
    /\ confirms' = Append(confirms, TRUE)
    /\ pc' = "finally"
    /\ UNCHANGED <<session, messages, raised>>
    /\ UNCHANGED <<netVars, playVars, audioVars, sinkVars, sendVars>>

\* except Exception: confirm_session(session_id, success=False).
ConfirmFailure ==
    /\ pc = "except"
    /\ confirms' = Append(confirms, FALSE)
    /\ pc' = "finally"
    /\ UNCHANGED <<session, messages, raised>>
    /\ UNCHANGED <<netVars, playVars, audioVars, sinkVars, sendVars>>

\* An interrupt reaches the main task while it waits inside the try block:
\* CancelledError / KeyboardInterrupt is no Exception, so neither
\* send_text_stream's handlers nor handle_ai_turn's except clause catch it and
\* control goes to the finally clause.  An interrupt inside send_text_stream
\* (in ws.send or in asyncio.sleep) is recorded as such: the function does not
\* return then.
Interrupt ==
    /\ pc \in {"connect", "send", "sleep", "waitplay"}
    /\ raised' = raised \cup {"interrupt"}
                  \cup (IF pc \in {"send", "sleep"} THEN {"interrupt_send"}
                        ELSE {})
    /\ pc' = "finally"
    /\ UNCHANGED <<session, confirms, messages>>
    /\ UNCHANGED <<netVars, playVars, audioVars, sinkVars, sendVars>>

\* ------------------------------------------------------------------ close
\* close() starts: with a connection, ws.close() is awaited.
CloseBegin ==
    /\ pc = "finally"
    /\ conn' = IF ws /\ conn = "open" THEN "self_closed" ELSE conn
    /\ pc' = IF ws THEN "closing" ELSE "release"
    /\ closes' = closes + 1
    /\ UNCHANGED <<session, confirms, messages, raised>>
    /\ UNCHANGED <<ws, inbox, nmsgs, rx, received>>
    /\ UNCHANGED <<stream, saved>>
    /\ UNCHANGED <<playVars, audioVars, sendVars>>

\* ws.close() returns.
WsClosed ==
    /\ pc = "closing"
    /\ pc' = "release"
    /\ UNCHANGED <<session, confirms, messages, raised>>
    /\ UNCHANGED <<netVars, playVars, audioVars, sinkVars, sendVars>>

\* await self.ws.close() raises (the wait is cancelled or interrupted, or the
\* transport fails): close() has no handler, so the save and the release of
\* the stream are skipped and the error leaves handle_ai_turn.
WsCloseFails ==
    /\ pc = "closing"
    /\ raised' = raised \cup {"wsclose"}
    /\ pc' = "crashed"
    /\ UNCHANGED <<session, confirms, messages>>
    /\ UNCHANGED <<netVars, playVars, audioVars, sinkVars, sendVars>>

\* A variant of Join that keeps the last chunk only.
JoinLast(chunks) == IF chunks = <<>> THEN <<>> ELSE chunks[Len(chunks)]

\* b''.join(self.audio_frames)
RECURSIVE Join(_)
Join(chunks) ==
    IF chunks = <<>> THEN <<>> ELSE Head(chunks) \o Join(Tail(chunks))

\* _save_audio_to_file, then the stream is stopped and closed and PyAudio
\* terminated.
Release ==
    /\ pc = "release"
    /\ saved' = IF audio_frames # <<>> THEN Some(Join(audio_frames)) ELSE saved
    /\ stream' = "closed"
    /\ pc' = "done"
    /\ UNCHANGED <<session, confirms, messages, raised, closes>>
    /\ UNCHANGED <<netVars, playVars, audioVars, sendVars>>

\* _save_audio_to_file raises while writing the file (wave.open or
\* writeframes): the stream is not stopped or closed, PyAudio not terminated.
SaveFails ==
    /\ pc = "release"
    /\ audio_frames # <<>>
    /\ raised' = raised \cup {"save"}
    /\ pc' = "crashed"
    /\ UNCHANGED <<session, confirms, messages>>
    /\ UNCHANGED <<netVars, playVars, audioVars, sinkVars, sendVars>>

\* ---------------------------------------------------------- receive_audio
\* A variant of IsServerError that takes no message for an error.
IsServerErrorNever(m) == FALSE

\* data.get('header', {}).get('code') != 0
IsServerError(m) == m.code # Some(0)

\* if audio_data_b64: the message carries audio.
HasAudio(m) == m.audio.some /\ m.audio.v # <<>>

\* A variant of PutItems that puts the marker before the chunk.
PutItemsEndFirst(m) ==
    (IF m.status = Some(2) THEN <<EndOfStream>> ELSE <<>>)
    \o (IF HasAudio(m) THEN <<ChunkItem(B64Decode(m.audio.v))>> ELSE <<>>)

\* What one message with code 0 puts on the queue: the decoded chunk if it
\* carries audio, then None if its status is 2.
PutItems(m) ==
    (IF HasAudio(m) THEN <<ChunkItem(B64Decode(m.audio.v))>> ELSE <<>>)
    \o (IF m.status = Some(2) THEN <<EndOfStream>> ELSE <<>>)

\* One message is read and handled, up to the next recv().  What the
\* server put in the message shows when recv() returns it.
RxMessage ==
    /\ rx = "ready"
    /\ Suspended
    /\ inbox > 0
    /\ inbox' = inbox - 1
    /\ \E m \in ServerMsgs(nmsgs - inbox + 1) :
       /\ received' = Append(received, m)
       /\ IF ~m.json THEN
              \* json.JSONDecodeError: the handler only prints
              /\ rx' = "badjson"
              /\ raised' = raised \cup {"json"}
              /\ UNCHANGED audioVars
          ELSE IF IsServerError(m) THEN
              \* continue
              /\ UNCHANGED <<rx, raised, audioVars>>
          ELSE IF HasAudio(m) /\ ~B64Valid(m.audio.v) THEN
              \* b64decode raises: except Exception puts None
              /\ rx' = "error"
              /\ raised' = raised \cup {"receive"}
              /\ audio_queue' = Append(audio_queue, EndOfStream)
              /\ pushed' = Append(pushed, EndOfStream)
              /\ UNCHANGED audio_frames
          ELSE
              /\ audio_frames' = IF HasAudio(m)
                                 THEN Append(audio_frames, B64Decode(m.audio.v))
                                 ELSE audio_frames
              /\ audio_queue' = audio_queue \o PutItems(m)
              /\ pushed' = pushed \o PutItems(m)
              /\ rx' = IF m.status = Some(2) THEN "ended" ELSE rx
              /\ UNCHANGED raised
    /\ UNCHANGED <<pc, session, confirms, messages>>
    /\ UNCHANGED <<conn, ws, nmsgs>>
    /\ UNCHANGED <<playVars, sinkVars, sendVars>>

\* recv() raises ConnectionClosed: None is put on the queue.
RxConnectionClosed ==
    /\ rx = "ready"
    /\ Suspended
    /\ inbox = 0
    /\ conn \in {"peer_closed", "self_closed"}
    /\ rx' = "closed"
    \* the connection was lost, unless close() itself has closed it
    /\ raised' = IF pc # "closing" THEN raised \cup {"closed"} ELSE raised
    /\ audio_queue' = Append(audio_queue, EndOfStream)
    /\ pushed' = Append(pushed, EndOfStream)
    /\ UNCHANGED <<pc, session, confirms, messages>>
    /\ UNCHANGED <<conn, ws, inbox, nmsgs, received, audio_frames>>
    /\ UNCHANGED <<playVars, sinkVars, sendVars>>

\* ------------------------------------------------------------- the server
ServerSend ==
    /\ conn = "open"
    /\ nmsgs < MaxMsgs
    /\ inbox' = inbox + 1
    /\ nmsgs' = nmsgs + 1
    /\ UNCHANGED <<conn, ws, rx, received>>
    /\ UNCHANGED <<turnVars, playVars, audioVars, sinkVars, sendVars>>

ServerClose ==
    /\ conn = "open"
    /\ conn' = "peer_closed"
    /\ UNCHANGED <<ws, inbox, nmsgs, rx, received>>
    /\ UNCHANGED <<turnVars, playVars, audioVars, sinkVars, sendVars>>

\* --------------------------------------------------------------- playback
\* play_audio_async runs on the event loop: it starts the thread unless
\* is_playing is set.
PlayAudioAsync ==
    /\ ptask = "scheduled"
    /\ Suspended
    /\ ptask' = "done"
    /\ thread' = IF ~is_playing THEN "started" ELSE thread
    /\ UNCHANGED <<took_eos, is_playing, chunk, played>>
    /\ UNCHANGED <<turnVars, netVars, audioVars, sinkVars, sendVars>>

\* _play_audio_sync begins: self.is_playing = True.
ThreadBegin ==
    /\ thread = "started"
    /\ is_playing' = TRUE
    /\ thread' = "poll"
    /\ UNCHANGED <<ptask, took_eos, chunk, played>>
    /\ UNCHANGED <<turnVars, netVars, audioVars, sinkVars, sendVars>>

\* A variant of QueueGet that returns the newest item.
QueueGetNewest(q) == q[Len(q)]

\* asyncio.Queue is first-in first-out: get_nowait returns the oldest item.
QueueGet(q) == Head(q)
QueueRest(q) == Tail(q)

\* get_nowait() returns an item: None ends the loop, a chunk is to be written.
\* (On QueueEmpty the thread sleeps 0.01 s and tries again.)
ThreadGet ==
    /\ thread = "poll"
    /\ audio_queue # <<>>
    /\ audio_queue' = QueueRest(audio_queue)
    /\ LET item == QueueGet(audio_queue) IN
       IF item.eos
       THEN /\ took_eos' = TRUE
            /\ thread' = "exit"
            /\ UNCHANGED chunk
       ELSE /\ chunk' = Some(item.data)
            /\ thread' = "write"
            /\ UNCHANGED took_eos
    /\ UNCHANGED <<ptask, is_playing, played>>
    /\ UNCHANGED <<audio_frames, pushed>>
    /\ UNCHANGED <<turnVars, netVars, sinkVars, sendVars>>

\* self.stream.write(chunk) on the open stream.
ThreadWrite ==
    /\ thread = "write"
    /\ stream = "open"
    /\ played' = Append(played, chunk.v)
    /\ thread' = "poll"
    /\ UNCHANGED <<ptask, took_eos, is_playing, chunk>>
    /\ UNCHANGED <<turnVars, netVars, audioVars, sinkVars, sendVars>>

\* self.stream.write(chunk) raises (a device error, or the stream was closed
\* by close()): except Exception prints and leaves the loop.
ThreadWriteFails ==
    /\ thread = "write"
    /\ raised' = raised \cup {"play"}
    /\ thread' = "exit"
    /\ UNCHANGED <<ptask, took_eos, is_playing, chunk, played>>
    /\ UNCHANGED <<pc, session, confirms, messages>>
    /\ UNCHANGED <<netVars, audioVars, sinkVars, sendVars>>

\* After the loop: self.is_playing = False and the thread ends.
ThreadEnd ==
    /\ thread = "exit"
    /\ is_playing' = FALSE
    /\ thread' = "dead"
    /\ UNCHANGED <<ptask, took_eos, chunk, played>>
    /\ UNCHANGED <<turnVars, netVars, audioVars, sinkVars, sendVars>>

\* ------------------------------------------------------- specifications
MainStep ==
    \/ GetSession \/ Construct \/ ConstructFails
    \/ ConnectOk \/ ConnectFails \/ StartStream
    \/ AfterSend \/ PollPlaying \/ ConfirmSuccess \/ ConfirmFailure
    \/ CloseBegin \/ WsClosed \/ Release

SendStep ==
    \/ SendTextStreamBegin \/ LoopExit \/ SkipBlank \/ BuildFrame
    \/ SendOk \/ Wake

ReceiveStep == RxMessage \/ RxConnectionClosed

ThreadStep == ThreadBegin \/ ThreadGet \/ ThreadWrite \/ ThreadEnd

\* What the environment does: the server, failures of the connection and of
\* the device, and the user's interrupt.
EnvStep ==
    \/ ServerSend \/ ServerClose
    \/ SendFails \/ ThreadWriteFails \/ Interrupt
    \/ WsCloseFails \/ SaveFails

Next ==
    \/ MainStep \/ SendStep \/ ReceiveStep \/ PlayAudioAsync \/ ThreadStep
    \/ EnvStep

Spec == Init /\ [][Next]_vars

\* send_text_stream alone, on an open connection, for every input.
FramerInit ==
    /\ pc = "send_text_stream"
    /\ session = TRUE
    /\ confirms = <<>>
    /\ messages = <<>>
    /\ raised = {}
    /\ conn = "open"
    /\ ws = TRUE
    /\ inbox = 0
    /\ nmsgs = 0
    /\ rx = "ready"
    /\ received = <<>>
    /\ ptask = "scheduled"
    /\ thread = "none"
    /\ took_eos = FALSE
    /\ is_playing = FALSE
    /\ chunk = None
    /\ audio_queue = <<>>
    /\ audio_frames = <<>>
    /\ pushed = <<>>
    /\ played = <<>>
    /\ stream = "open"
    /\ saved = None
    /\ closes = 0
    /\ frags \in FramerSeqs
    /\ iterator = frags
    /\ current_chunk = None
    /\ next_chunk = None
    /\ chunk_to_send = <<>>
    /\ full_text = <<>>
    /\ seq = 0
    /\ is_first = TRUE
    /\ frame = None
    /\ sent = <<>>

FramerNext == SendStep \/ SendFails

FramerSpec == FramerInit /\ [][FramerNext]_vars

\* The event loop runs every task that can run, and the playback thread is
\* scheduled; nothing is assumed of the server, the device or the user.
FairSpec ==
    /\ Spec
    /\ WF_vars(MainStep)
    /\ WF_vars(SendStep)
    /\ WF_vars(ReceiveStep)
    /\ WF_vars(PlayAudioAsync)
    /\ WF_vars(ThreadStep)

\* ---------------------------------------------------------------- claims
IsPrefix(a, b) == Len(a) <= Len(b) /\ SubSeq(b, 1, Len(a)) = a

\* The chunks among queue items, in order.
RECURSIVE ChunkData(_)
ChunkData(items) ==
    IF items = <<>> THEN <<>>
    ELSE IF Head(items).eos THEN ChunkData(Tail(items))
    ELSE <<Head(items).data>> \o ChunkData(Tail(items))

\* The fragments that are not blank, in order.
RECURSIVE NonBlank(_)
NonBlank(fs) ==
    IF fs = <<>> THEN <<>>
    ELSE IF Strip(Head(fs)) = <<>> THEN NonBlank(Tail(fs))
    ELSE <<Head(fs)>> \o NonBlank(Tail(fs))

\* What a receiver of a frame reads back: bytes.decode('utf-8').
Chr(n) ==
    CASE n = 32 -> " "
      [] n = 10 -> "\n"
      [] n = 97 -> "a"
      [] n = 98 -> "b"

Utf8Decode(bs) == [i \in 1..Len(bs) |-> Chr(bs[i])]

NoTrueConfirm == \A i \in 1..Len(confirms) : confirms[i] = FALSE

\* C1: when the turn is over, confirm_session was called exactly once if a
\* session was obtained, on every exit path, and never if none was obtained.
C1_ConfirmedExactlyOnce ==
    pc = "done" => Len(confirms) = (IF session THEN 1 ELSE 0)

\* C2: when send_text_stream has returned without a failed write and the
\* input held a non-blank fragment, the last frame sent has status 2, the
\* first has status 0 unless it is the last, and all between have status 1.
C2_ExactlyOneLastFrame ==
    (pc = "sent" /\ "send" \notin raised /\ NonBlank(frags) # <<>>) =>
        /\ Len(sent) >= 1
        /\ sent[Len(sent)].status = 2
        /\ \A i \in 1..(Len(sent) - 1) :
               sent[i].status = IF i = 1 THEN 0 ELSE 1

\* C3: once the receive loop has seen the connection close during the turn,
\* the end-of-stream marker is on record as enqueued and the session is
\* never confirmed with success = True; without an interrupt it is confirmed
\* with success = False when the turn is over.
C3_LostConnectionConfirmedFailed ==
    "closed" \in raised =>
        /\ \E i \in 1..Len(pushed) : pushed[i].eos
        /\ NoTrueConfirm
        /\ pc = "done" /\ "interrupt" \notin raised => confirms = <<FALSE>>

\* C4: a message that is not JSON does not stop the receive loop: after one,
\* the loop is still reading or has stopped for another reason.
C4_NonJsonKeepsReading ==
    "json" \in raised => rx \in {"ready", "ended", "closed", "error"}

\* C5: after a failed connect or a failed frame write the session is never
\* confirmed with success = True, and without an interrupt it is confirmed
\* with success = False when the turn is over.
C5_FailureConfirmedFailed ==
    (raised \cap {"connect", "send"} # {}) =>
        /\ NoTrueConfirm
        /\ pc = "done" /\ "interrupt" \notin raised => confirms = <<FALSE>>

\* C6: under fair scheduling of the client, the wait for the end of playback
\* always ends, whatever the server does.
C6_PlaybackWaitEnds == (pc = "waitplay") ~> (pc # "waitplay")

\* C7: on a turn without an error, close() has not started unless the
\* receive loop has seen the end of stream and the playback thread has taken
\* the marker and stopped.
C7_CloseAfterDrain ==
    (pc \in {"closing", "release", "done"} /\ session /\ raised = {}) =>
        /\ rx = "ended"
        /\ took_eos
        /\ thread = "dead"

\* C8: the chunks written to the sink are a prefix of the chunks enqueued, in
\* the same order; unless a write to the sink raised, the chunks written, the
\* chunk in the thread's hand and the chunks in the queue are exactly the
\* chunks enqueued; and when the thread has taken the marker every chunk
\* enqueued has been written.
C8_PlaybackFifo ==
    LET enq == ChunkData(pushed)
        hand == IF thread = "write" THEN <<chunk.v>> ELSE <<>>
    IN /\ IsPrefix(played, enq)
       /\ "play" \notin raised => enq = played \o hand \o ChunkData(audio_queue)
       /\ took_eos => played = enq

\* C8's case: two chunks went through the queue and were written, then the
\* marker was taken.
C8_Witness == took_eos /\ Len(played) >= 2

\* C9: the frames written carry seq 0, 1, ... in order, the k-th the
\* stripped text of the k-th non-blank fragment; blank fragments take no
\* number and cause no write; after a run without failure every non-blank
\* fragment has its frame.
C9_DenseSequenceNumbers ==
    /\ Len(sent) <= Len(NonBlank(frags))
    /\ \A k \in 1..Len(sent) :
           /\ sent[k].seq = k - 1
           /\ Utf8Decode(B64Decode(sent[k].text)) = Strip(NonBlank(frags)[k])
    /\ seq = Len(sent)
    /\ (pc = "sent" /\ "send" \notin raised) =>
           Len(sent) = Len(NonBlank(frags))

\* C9's case: two frames written from an input that also held a blank
\* fragment.
C9_Witness ==
    /\ pc = "sent"
    /\ Len(sent) >= 2
    /\ Len(frags) > Len(NonBlank(frags))

\* C10: the parameter block is on the frame with seq 0 and on no other,
\* whether that frame has status 0 or status 2.
C10_ParameterOnFirstFrameOnly ==
    /\ \A k \in 1..Len(sent) : sent[k].parameter <=> sent[k].seq = 0
    /\ Len(sent) >= 1 =>
           /\ sent[1].parameter
           /\ sent[1].seq = 0
           /\ sent[1].status \in {0, 2}
    /\ frame.some => (frame.v.parameter <=> frame.v.seq = 0)

\* C10's case: a first frame of many with the block, followed by a frame
\* without it.
C10_Witness ==
    /\ Len(sent) >= 2
    /\ sent[1].status = 0
    /\ sent[1].parameter
    /\ ~sent[2].parameter


\* C11: the receive loop puts the end-of-stream marker at most once, nothing
\* after it, and exactly once when the loop has stopped, whichever way it
\* stopped.
C11_MarkerExactlyOnce ==
    LET marks == {i \in 1..Len(pushed) : pushed[i].eos}
    IN /\ Cardinality(marks) <= 1
       /\ \A i \in marks : i = Len(pushed)
       /\ rx \in {"ended", "closed", "badjson", "error"} =>
              Cardinality(marks) = 1


\* The scenario of C12: a message with code 5, a message with audio, a
\* message with status 2.
ScenarioC ==
    <<Msg(Some(5), None, Some(B64Encode(AudioBytes(1)))),
      Msg(Some(0), Some(1), Some(B64Encode(AudioBytes(2)))),
      Msg(Some(0), Some(2), None)>>

\* C12: a message whose header.code is not 0 puts nothing on the queue and
\* does not stop the loop: the chunks enqueued are as many as the messages
\* read with code 0 and decodable audio, after such a message the loop is
\* still reading (or has then seen the connection close), and the scenario
\* puts exactly one chunk and then the marker.
C12_ServerErrorSkipped ==
    /\ Len(ChunkData(pushed)) =
           Cardinality({i \in 1..Len(received) :
                           /\ received[i].json
                           /\ received[i].code = Some(0)
                           /\ received[i].audio.some
                           /\ received[i].audio.v # <<>>
                           /\ Len(received[i].audio.v) % 4 = 0})
    /\ (/\ received # <<>>
        /\ received[Len(received)].json
        /\ received[Len(received)].code # Some(0)) => rx \in {"ready", "closed"}
    /\ received = ScenarioC =>
           /\ pushed = <<ChunkItem(AudioBytes(2)), EndOfStream>>
           /\ rx = "ended"

\* C12's case: the three messages of the scenario have been read.
C12_Witness == received = ScenarioC


\* C13: once close() has been called and the turn is over, the audio stream
\* is released, also when closing the connection or saving the file failed.
C13_TeardownTotal ==
    (closes >= 1 /\ pc \in {"done", "crashed"}) => stream = "closed"


\* C14: when a turn that acquired a session and opened a sink is over,
\* close() was called exactly once and the sink is released -- on every path,
\* a failure while constructing the client included.  (Turns in which a step of close()
\* itself failed are C13's and are left out here.)
C14_ClosedOnceOnEveryPath ==
    (/\ session
     /\ stream # "none"
     /\ pc \in {"done", "crashed"}
     /\ raised \cap {"wsclose", "save"} = {}) =>
        /\ closes = 1
        /\ stream = "closed"


\* C15: the audio queue has a bounded capacity -- it never holds as many
\* items as the server may send messages in a turn, the receive loop being
\* held in its put while the queue is full.
C15_QueueBounded == Len(audio_queue) < MaxMsgs


\* C16: the playback thread of a turn has stopped when the turn is over (the
\* game loop then starts the next turn, with a thread of its own), and no
\* playback thread is writing to a sink that close() has released.
C16_OneConsumerAtATime ==
    /\ pc = "done" => ~ThreadAlive
    /\ ~(thread = "write" /\ stream = "closed")


\* Every fragment of the turn is made of whitespace only (no fragment at all
\* included), and the text stream has been handed to send_text_stream.
BlankOnlyTurn ==
    /\ ptask # "none"
    /\ \A i \in 1..Len(frags) :
          \A j \in 1..Len(frags[i]) : frags[i][j] \in Whitespace

\* C17: for a fragment sequence that is empty or all blank, send_text_stream
\* writes nothing, returns the empty text without raising, and the turn is
\* confirmed with success = true with no assistant message appended.
C17_BlankOnlyTurnIsValid ==
    BlankOnlyTurn =>
        /\ sent = <<>> /\ frame = None
        /\ full_text = <<>>
        /\ messages = <<>>
        /\ raised \cap {"send", "interrupt"} = {}
        /\ pc \notin {"send", "sleep", "except"}
        /\ pc \in {"finally", "closing", "release", "done", "crashed"} =>
               confirms = <<TRUE>>

\* C17's case: a turn of blank fragments has ended.
C17_Witness ==
    /\ BlankOnlyTurn
    /\ Len(frags) >= 1
    /\ pc = "done"
    /\ confirms = <<TRUE>>


\* The last message read has code 0, a decodable audio payload and status 2.
LastIsFinalAudio ==
    /\ received # <<>>
    /\ LET m == received[Len(received)]
       IN /\ m.json
          /\ m.code = Some(0)
          /\ m.status = Some(2)
          /\ m.audio.some /\ m.audio.v # <<>> /\ Len(m.audio.v) % 4 = 0

\* C18: a message with code 0, audio and status 2 enqueues its chunk first
\* and the marker second, and the loop stops; a playback thread that took
\* the marker has written that chunk to the sink.
C18_FinalChunkBeforeMarker ==
    LastIsFinalAudio =>
        LET raw == B64Decode(received[Len(received)].audio.v)
            n == Len(pushed)
        IN /\ rx = "ended"
           /\ n >= 2
           /\ pushed[n - 1] = ChunkItem(raw)
           /\ pushed[n] = EndOfStream
           /\ took_eos => played # <<>> /\ played[Len(played)] = raw

\* C18's case: such a message was read and the thread has played to the end.
C18_Witness ==
    /\ LastIsFinalAudio
    /\ took_eos
    /\ Len(played) >= 2


\* The bytes of a sequence of chunks, one chunk after the other.
RECURSIVE Flatten(_)
Flatten(ss) ==
    IF ss = <<>> THEN <<>>
    ELSE Flatten(SubSeq(ss, 1, Len(ss) - 1)) \o ss[Len(ss)]

\* C19: audio_frames holds exactly the chunks put on the audio queue so far,
\* in order; the chunks written to the sink are a prefix of it; what close()
\* saved is the concatenation of every chunk received in the turn, a turn
\* that received chunks and completed close() has saved them, and nothing is
\* saved when no chunk was received.
C19_FramesMirrorQueue ==
    /\ audio_frames = ChunkData(pushed)
    /\ IsPrefix(played, audio_frames)
    /\ saved.some => audio_frames # <<>> /\ saved.v = Flatten(audio_frames)
    /\ (pc = "done" /\ closes = 1 /\ audio_frames # <<>>) => saved.some
    /\ audio_frames = <<>> => saved = None

\* C19's case: a turn that received two chunks or more, played some and
\* saved the audio.
C19_Witness ==
    /\ pc = "done"
    /\ saved.some
    /\ Len(audio_frames) >= 2
    /\ Len(played) >= 1


\* C20 as stated: when the turn is over, an assistant message was appended
\* if and only if at least one frame was written.
C20_MessageIffFrameWritten ==
    pc = "done" => (messages # <<>> <=> sent # <<>>)

\* C20, amended: the text of send_text_stream is the concatenation of the
\* trimmed texts of the frames written, in order, also after a failed write;
\* at most one assistant message is appended, it carries that text and is
\* appended only if a frame was written; it is appended whenever
\* send_text_stream returned with a frame written, and it is not appended
\* when an interrupt ended the turn inside send_text_stream.
C20_TextOfFramesWritten ==
    /\ full_text =
           Flatten([k \in 1..Len(sent) |-> Utf8Decode(B64Decode(sent[k].text))])
    /\ full_text =
           Flatten([k \in 1..Len(sent) |-> Strip(NonBlank(frags)[k])])
    /\ Len(messages) <= 1
    /\ messages # <<>> => messages = <<full_text>> /\ sent # <<>>
    /\ (/\ pc \in {"waitplay", "confirm", "finally", "closing", "release",
                   "done", "crashed"}
        /\ "interrupt_send" \notin raised
        /\ sent # <<>>) => messages = <<full_text>>
    /\ "interrupt_send" \in raised => messages = <<>>

\* C20's case: a frame was written, a later write failed, and the turn ended
\* with the message appended.
C20_Witness ==
    /\ pc = "done"
    /\ "send" \in raised
    /\ Len(sent) >= 1
    /\ messages = <<full_text>>

====
